---- MODULE Spec2Model ----
(***************************************************************************)
(* A model of the egu22pygmt short-course notebooks.                       *)
(*                                                                         *)
(* The repository is a set of Jupyter notebooks.  A notebook is a list of  *)
(* code cells, a cell is a list of Python statements, and a Jupyter kernel *)
(* executes one cell at a time, statement by statement; the reader may run *)
(* the cells in any order and any number of times.  The cells below are    *)
(* transcribed statement by statement from the notebooks (each statement   *)
(* carries the line of the .ipynb file it stands on), and the kernel is an *)
(* interpreter over them.  What a PyGMT call does to a figure is modelled  *)
(* as the notebooks' narrative describes it.                               *)
(***************************************************************************)
EXTENDS Integers, Sequences, FiniteSets, TLC

\* How many cells a reader runs out of the document order in one session.
MaxJumps == 3

(***************************************************************************)
(* Statements.                                                             *)
(***************************************************************************)

\* A statement with no keyword argument given.  "var" is the name the
\* statement binds (import, assignment, def) or the object whose method it
\* calls; "reads" are the names it evaluates.
Stmt(line, op, var, reads) ==
    [line |-> line, op |-> op, var |-> var, reads |-> reads,
     region |-> "-", projection |-> "-", frame |-> "-",
     land |-> "-", water |-> "-", shorelines |-> "-",
     data |-> "-", style |-> "-", color |-> "-", cmap |-> "-",
     arg |-> "-"]

Import(line, name) == Stmt(line, "import", name, {})
Assign(line, name, reads, rhs) == [Stmt(line, "assign", name, reads) EXCEPT !.arg = rhs]
Expr(line, reads) == Stmt(line, "expr", "-", reads)
NewFig(line, name) == Stmt(line, "Figure", name, {"pygmt"})
Show(line, name) == Stmt(line, "show", name, {name})

(***************************************************************************)
(* first-figure.ipynb                                                      *)
(***************************************************************************)

\* The call that every figure from "Choosing a projection" on starts with.
CoastCassini(line) ==
    [Stmt(line, "coast", "fig", {"fig", "region"}) EXCEPT
        !.projection = "C140/40/15c", !.region = "region",
        !.land = "lightgreen", !.water = "lightblue", !.shorelines = "True"]

CoastFilled(line) ==
    [Stmt(line, "coast", "fig", {"fig", "region"}) EXCEPT
        !.region = "region", !.shorelines = "True",
        !.land = "lightgreen", !.water = "lightblue"]

Basemap(line, frame) ==
    [Stmt(line, "basemap", "fig", {"fig"}) EXCEPT !.frame = frame]

MakecptDepth(line) ==
    [Stmt(line, "makecpt", "-", {"pygmt", "data"}) EXCEPT
        !.cmap = "plasma", !.arg = "[data.depth_km.min(), data.depth_km.max()]"]

PlotQuakes(line) ==
    [Stmt(line, "plot", "fig", {"fig", "data"}) EXCEPT !.data = "data"]

FF_import == << Import(32, "pygmt") >>
FF_figure == << NewFig(66, "fig") >>
FF_region == << Assign(94, "region", {}, "[125, 155, 30, 55]") >>
FF_shorelines ==
    << [Stmt(112, "coast", "fig", {"fig", "region"}) EXCEPT
           !.region = "region", !.shorelines = "True"] >>
FF_show == << Show(130, "fig") >>
FF_water ==
    << [Stmt(158, "coast", "fig", {"fig"}) EXCEPT !.water = "lightblue"],
       Show(159, "fig") >>
FF_land ==
    << [Stmt(177, "coast", "fig", {"fig"}) EXCEPT !.land = "lightgreen"],
       Show(178, "fig") >>
FF_twocall ==
    << NewFig(201, "fig"),
       [Stmt(203, "coast", "fig", {"fig", "region"}) EXCEPT
           !.region = "region", !.land = "lightgreen", !.water = "lightblue"],
       [Stmt(205, "coast", "fig", {"fig"}) EXCEPT !.shorelines = "True"],
       Show(206, "fig") >>
FF_combined ==
    << NewFig(224, "fig"), CoastFilled(225), Show(226, "fig") >>
FF_frame ==
    << NewFig(254, "fig"), CoastFilled(255), Basemap(256, "a"), Show(257, "fig") >>
FF_minor ==
    << NewFig(287, "fig"), CoastFilled(288), Basemap(289, "af"), Show(290, "fig") >>
FF_grid ==
    << NewFig(318, "fig"), CoastFilled(319), Basemap(320, "afg"), Show(321, "fig") >>
FF_title ==
    << NewFig(353, "fig"), CoastFilled(354),
       Basemap(355, "afg+tCoastlines around Japan"), Show(356, "fig") >>
FF_projection ==
    << NewFig(378, "fig"), CoastCassini(379),
       Basemap(386, "afg+tCoastlines around Japan"), Show(387, "fig") >>
FF_data ==
    << Assign(417, "data", {"pygmt"}, "load_sample_data(japan_quakes)"),
       Expr(418, {"data"}) >>
FF_lines ==
    << NewFig(446, "fig"), CoastCassini(447), PlotQuakes(454),
       Basemap(455, "afg+tEarthquakes around Japan"), Show(456, "fig") >>
FF_circles ==
    << NewFig(474, "fig"), CoastCassini(475),
       [PlotQuakes(482) EXCEPT !.style = "c0.3c", !.color = "white"],
       Basemap(483, "afg+tEarthquakes around Japan"), Show(484, "fig") >>
\* The cell of lines 519-530 had it drawn the frame before the data.
FF_cpt_frame_first ==
    << NewFig(519, "fig"), CoastCassini(520), MakecptDepth(527),
       Basemap(529, "afg+tEarthquakes around Japan"),
       [PlotQuakes(528) EXCEPT
           !.style = "c0.3c", !.color = "data.depth_km", !.cmap = "True"],
       Show(530, "fig") >>
FF_cpt ==
    << NewFig(519, "fig"), CoastCassini(520), MakecptDepth(527),
       [PlotQuakes(528) EXCEPT
           !.style = "c0.3c", !.color = "data.depth_km", !.cmap = "True"],
       Basemap(529, "afg+tEarthquakes around Japan"), Show(530, "fig") >>
FF_colorbar ==
    << NewFig(558, "fig"), CoastCassini(559), MakecptDepth(566),
       [PlotQuakes(567) EXCEPT
           !.style = "c0.3c", !.color = "data.depth_km", !.cmap = "True"],
       Basemap(568, "afg+tEarthquakes around Japan"),
       [Stmt(569, "colorbar", "fig", {"fig"}) EXCEPT !.frame = "a,y+lDepth (km)"],
       Show(570, "fig") >>

\* The notebook had its region cell come after the first coast cell.
FirstFigure_region_late ==
    << FF_import, FF_figure, FF_shorelines, FF_region, FF_show, FF_water,
       FF_land, FF_twocall, FF_combined, FF_frame, FF_minor, FF_grid,
       FF_title, FF_projection, FF_data, FF_lines, FF_circles, FF_cpt,
       FF_colorbar >>
FirstFigure ==
    << FF_import, FF_figure, FF_region, FF_shorelines, FF_show, FF_water,
       FF_land, FF_twocall, FF_combined, FF_frame, FF_minor, FF_grid,
       FF_title, FF_projection, FF_data, FF_lines, FF_circles, FF_cpt,
       FF_colorbar >>

(***************************************************************************)
(* lidar_to_surface.ipynb (the LiDAR notebook, lines 1-714 of the file)    *)
(***************************************************************************)

LI_import ==
    << Import(40, "laspy"), Import(41, "pd"), Import(42, "pygmt"),
       Import(43, "rioxarray"), Import(44, "xr") >>
LI_download ==
    << Assign(90, "lazfile", {"pygmt"}, "which(CL2_BQ31_2019_1000_2138.laz)"),
       Expr(94, {"lazfile"}) >>
LI_load ==
    << Assign(121, "lazdata", {"laspy", "lazfile"}, "laspy.read(lazfile)"),
       Assign(122, "df", {"pd", "lazdata"}, "DataFrame(lazdata)") >>
LI_region ==
    << Assign(154, "region", {"pygmt", "df"}, "info(df[x,y], spacing=1)"),
       Expr(155, {"region"}) >>
LI_describe == << Expr(173, {"df"}), Expr(174, {"df"}) >>
LI_every20 ==
    << Assign(197, "df_filtered", {"df"}, "df.iloc[::20]"),
       Expr(198, {"df_filtered"}) >>
LI_fig ==
    << NewFig(215, "fig"),
       [Stmt(216, "basemap", "fig", {"fig", "region"}) EXCEPT
           !.frame = "True", !.region = "region", !.projection = "x1:5000"],
       [Stmt(217, "makecpt", "-", {"pygmt", "df"}) EXCEPT
           !.cmap = "bukavu", !.arg = "[df.z.min(), df.z.max()]"],
       [Stmt(218, "plot", "fig", {"fig", "df_filtered"}) EXCEPT
           !.data = "df_filtered", !.color = "df_filtered.z",
           !.style = "c0.03c", !.cmap = "True"],
       [Stmt(221, "colorbar", "fig", {"fig"}) EXCEPT
           !.frame = "af+lElevation,y+lm"],
       Show(222, "fig") >>
LI_denoise ==
    << Assign(265, "df", {"df"}, "df.query(classification != 18)"),
       Expr(266, {"df"}) >>
LI_blockmedian ==
    << Assign(304, "df_trimmed", {"pygmt", "df", "region"},
              "blockmedian(df[x,y,z], T=0.99, spacing=1+e, region)"),
       Expr(310, {"df_trimmed"}) >>
LI_surface ==
    << Assign(343, "grid", {"pygmt", "df_trimmed", "region"},
              "surface(df_trimmed, spacing=1+e, region, T=0.35)") >>
LI_grid == << Expr(370, {"grid"}) >>
LI_fig2 ==
    << NewFig(400, "fig2"),
       [Stmt(401, "basemap", "fig2", {"fig2"}) EXCEPT
           !.frame = "True",
           !.region = "[1749760, 1750240, 5426880, 5427600]",
           !.projection = "x1:5000"],
       [Stmt(406, "makecpt", "-", {"pygmt"}) EXCEPT
           !.cmap = "bukavu", !.arg = "[-10, 200]"],
       [Stmt(407, "grdimage", "fig2", {"fig2", "grid"}) EXCEPT
           !.data = "grid", !.cmap = "True"],
       [Stmt(408, "colorbar", "fig2", {"fig2"}) EXCEPT
           !.frame = "af+lElevation,y+lm"],
       Show(409, "fig2") >>
LI_fig3 ==
    << NewFig(436, "fig3"),
       [Stmt(437, "grdview", "fig3", {"fig3", "grid"}) EXCEPT
           !.data = "grid", !.cmap = "bukavu"],
       Show(444, "fig3") >>
LI_fig3shaded ==
    << NewFig(466, "fig3"),
       [Stmt(467, "grdview", "fig3", {"fig3", "grid"}) EXCEPT
           !.data = "grid", !.cmap = "bukavu", !.arg = "shading",
           !.frame = "xaf+lEasting,yaf+lNorthing,zaf+lElevation (m),+tOriental Bay, Wellington"],
       Show(481, "fig3") >>
\* The save cell had it written the two DSM figures to one file.
LI_save_one_name ==
    << [Stmt(511, "savefig", "fig", {"fig"}) EXCEPT !.arg = "wellington_1d_lidar.png"],
       [Stmt(512, "savefig", "fig2", {"fig2"}) EXCEPT !.arg = "wellington_2d_dsm_map.png"],
       [Stmt(513, "savefig", "fig3", {"fig3"}) EXCEPT !.arg = "wellington_2d_dsm_map.png"] >>
LI_save ==
    << [Stmt(511, "savefig", "fig", {"fig"}) EXCEPT !.arg = "wellington_1d_lidar.png"],
       [Stmt(512, "savefig", "fig2", {"fig2"}) EXCEPT !.arg = "wellington_2d_dsm_map.png"],
       [Stmt(513, "savefig", "fig3", {"fig3"}) EXCEPT !.arg = "wellington_3d_dsm_view.png"] >>
LI_raster ==
    << [Stmt(531, "to_raster", "grid", {"grid", "rioxarray"}) EXCEPT
           !.arg = "DSM_of_Wellington.tif"] >>
\* The shipped list of file names is empty: the loop body (lines 594-606)
\* is never entered.
LI_bonus ==
    << Assign(588, "filenames", {}, "[]"),
       Assign(592, "df", {"pd"}, "DataFrame()"),
       Stmt(593, "for", "-", {"filenames"}) >>
LI_bonusdf == << Expr(615, {"df"}) >>
\* Four cells that hold a comment only.
LI_todo == << >>

Lidar ==
    << LI_import, LI_download, LI_load, LI_region, LI_describe, LI_every20,
       LI_fig, LI_denoise, LI_blockmedian, LI_surface, LI_grid, LI_fig2,
       LI_fig3, LI_fig3shaded, LI_save, LI_raster, LI_bonus, LI_bonusdf,
       LI_todo, LI_todo, LI_todo, LI_todo >>

(***************************************************************************)
(* The ecosystem notebook (src/unnamed/part_001)                           *)
(***************************************************************************)

\* The body of view(depth), lines 211-215; its fig is a local variable.
ViewBody(depth) ==
    << NewFig(211, "view.fig"),
       [Stmt(212, "makecpt", "-", {"pygmt"}) EXCEPT
           !.cmap = "vik", !.arg = "[-2, 30]"],
       [Stmt(213, "grdimage", "view.fig", {"view.fig", "woa_temp"}) EXCEPT
           !.data = "woa_temp.t_an.sel(depth)", !.arg = depth,
           !.cmap = "True", !.projection = "R15c", !.frame = "True"],
       [Stmt(214, "colorbar", "view.fig", {"view.fig"}) EXCEPT !.frame = "a5"],
       Stmt(215, "return", "view.fig", {"view.fig"}) >>

EC_import == << Import(43, "pygmt"), Import(44, "gpd") >>
EC_world ==
    << Assign(62, "world", {"gpd"}, "read_file(naturalearth_lowres)"),
       Expr(63, {"world"}) >>
EC_population ==
    << Assign(82, "world", {"world"}, "world[(pop_est > 0) & (name != Antarctica)]"),
       Assign(83, "world", {"world"}, "world with pop_est * 1e-6"),
       Assign(86, "cmap_bounds", {"pygmt", "world"}, "info(world[pop_est], per_column)"),
       Expr(87, {"cmap_bounds"}) >>
EC_choropleth ==
    << NewFig(106, "fig"),
       [Stmt(108, "makecpt", "-", {"pygmt", "cmap_bounds"}) EXCEPT
           !.cmap = "bilbao", !.arg = "cmap_bounds"],
       [Stmt(110, "basemap", "fig", {"fig"}) EXCEPT
           !.region = "d", !.projection = "H15c", !.frame = "True"],
       [Stmt(115, "plot", "fig", {"fig", "world"}) EXCEPT
           !.data = "world", !.color = "+z", !.cmap = "True",
           !.arg = "pen=1p,black;close;aspatial=Z=pop_est"],
       [Stmt(117, "colorbar", "fig", {"fig"}) EXCEPT
           !.frame = "a200+lPopulation (millions)"],
       Show(119, "fig") >>
EC_panel ==
    << Import(156, "pn"), Import(157, "xr"), Import(158, "pygmt"),
       Expr(159, {"pn"}) >>
EC_woa ==
    << Assign(170, "url", {}, "https://iridl.ldeo.columbia.edu/...t_an/data.nc"),
       Assign(171, "netcdf_file", {"pygmt", "url"}, "which(url)"),
       Assign(172, "woa_temp", {"xr", "netcdf_file"}, "open_dataset(netcdf_file).isel(time=0)"),
       Expr(173, {"woa_temp"}) >>
EC_static ==
    << NewFig(184, "fig"),
       [Stmt(185, "grdimage", "fig", {"fig", "woa_temp"}) EXCEPT
           !.data = "woa_temp.t_an.sel(depth=0)", !.cmap = "vik",
           !.projection = "R15c", !.frame = "True"],
       Show(186, "fig") >>
EC_slider ==
    << Assign(197, "depth_slider", {"pn", "woa_temp"}, "DiscreteSlider(value=0)") >>
EC_view == << Stmt(209, "def", "view", {"pn", "depth_slider"}) >>
\* Displaying the column renders view once, for the slider's value (0, line
\* 197).
EC_dashboard == << Expr(241, {"pn", "depth_slider", "view"}) >> \o ViewBody("0")

Ecosystem ==
    << EC_import, EC_world, EC_population, EC_choropleth, EC_panel, EC_woa,
       EC_static, EC_slider, EC_view, EC_dashboard >>

(***************************************************************************)
(* Mars_Maps (src/unnamed/part_000, from line 58) and its extended version *)
(* (lidar_to_surface.ipynb, from line 716)                                 *)
(***************************************************************************)

\* "with fig.inset(...):", "with fig.subplot(...):" and "with
\* fig.set_panel(...):" open a block; End closes the innermost one where
\* the indentation returns.
Inset(line) == [Stmt(line, "inset", "fig", {"fig"}) EXCEPT !.arg = "JTR+w3.5c+o0.2c"]
\* A block that would never be left.
End_missing(line) == Stmt(line, "expr", "-", {})
End(line) == Stmt(line, "end", "fig", {})

GrdviewMars(line, grid, proj, cmap, reads) ==
    [Stmt(line, "grdview", "fig", {"fig", grid} \cup reads) EXCEPT
        !.data = grid, !.projection = proj, !.cmap = cmap,
        !.frame = "xa5f1,ya5f1,z5000+lmeters,wSEnZ",
        !.region = IF grid = "topo_hawaii"
                   THEN "[-170, -140, 13, 25, -5000, 23000]"
                   ELSE "[210, 240, 13, 25, -5000, 23000]"]

MakecptSealand(line) ==
    [Stmt(line, "makecpt", "-", {"pygmt"}) EXCEPT
        !.cmap = "sealand", !.arg = "-5000/24000/1000"]

ColorbarElevation(line, annot) ==
    [Stmt(line, "colorbar", "fig", {"fig"}) EXCEPT !.frame = annot]

MA_wget == << Stmt(96, "shell", "-", {}) >>
MA_open ==
    << Import(106, "xr"),
       Assign(108, "dset_mars", {"xr"}, "open_dataset(mola32.nc)"),
       Expr(109, {"dset_mars"}) >>
MA_sample ==
    << Import(127, "pygmt"),
       Assign(129, "dset_mars_topo", {"dset_mars"}, "dset_mars.alt.astype(float)"),
       Assign(130, "dset_mars_topo", {"pygmt", "dset_mars_topo"}, "grdsample(dset_mars_topo)") >>
MA_global ==
    << NewFig(150, "fig"),
       [Stmt(152, "grdimage", "fig", {"fig", "dset_mars_topo"}) EXCEPT
           !.data = "dset_mars_topo", !.region = "g", !.frame = "True",
           !.projection = "W12c"],
       ColorbarElevation(153, "a5000,x+lElevation,y+lm"),
       Show(155, "fig") >>
MA_olympus ==
    << Assign(173, "dset_olympus", {"dset_mars"}, "dset_mars.sel(Olympus).alt.astype(float)"),
       Expr(174, {"dset_olympus"}) >>
MA_view ==
    << NewFig(192, "fig"),
       [GrdviewMars(194, "dset_olympus", "M12c", "-", {}) EXCEPT !.arg = "shading=+a50+nt1"],
       Assign(202, "bounds", {}, "[[210,13],[210,25],[240,25],[240,13],[210,13]]"),
       ColorbarElevation(208, "a5000,x+lElevation,y+lm"),
       Inset(209),
       [Stmt(210, "grdimage", "fig", {"fig", "dset_mars_topo"}) EXCEPT
           !.data = "dset_mars_topo", !.region = "g", !.frame = "True",
           !.projection = "W3.5c"],
       [Stmt(211, "plot", "fig", {"fig", "bounds"}) EXCEPT
           !.data = "bounds", !.arg = "pen=1p,red"],
       End(211),
       Show(213, "fig") >>

Mars == << MA_wget, MA_open, MA_sample, MA_global, MA_olympus, MA_view >>

\* "%%script echo skipping" makes the shell echo the word instead of
\* running the cell.
MX_colab == << Stmt(754, "magic", "-", {}) >>
MX_wget == << Stmt(798, "shell", "-", {}) >>
MX_inline == << Stmt(816, "magic", "-", {}) >>
MX_open ==
    << Import(837, "xr"),
       Assign(839, "dset_mars", {"xr"}, "open_dataset(mola32.nc)"),
       Expr(840, {"dset_mars"}) >>
MX_sample ==
    << Import(862, "pygmt"),
       Assign(865, "dset_mars_topo", {"dset_mars"}, "dset_mars.alt.astype(float)"),
       Assign(869, "dset_mars_topo", {"pygmt", "dset_mars_topo"}, "grdsample(dset_mars_topo)") >>
MX_global ==
    << NewFig(894, "fig"),
       [Stmt(896, "grdimage", "fig", {"fig", "dset_mars_topo"}) EXCEPT
           !.data = "dset_mars_topo", !.region = "g", !.frame = "True",
           !.projection = "Cyl_stere/0/0/12c"],
       ColorbarElevation(901, "a5000,x+lElevation,y+lm"),
       Show(902, "fig") >>
MX_olympus ==
    << Assign(927, "dset_olympus", {"dset_mars"}, "dset_mars.sel(Olympus).alt.astype(float)"),
       Expr(928, {"dset_olympus"}) >>
MX_map ==
    << NewFig(953, "fig"),
       [Stmt(955, "grdimage", "fig", {"fig", "dset_olympus"}) EXCEPT
           !.data = "dset_olympus", !.projection = "M12c",
           !.frame = "a5f1", !.cmap = "geo"],
       ColorbarElevation(957, "a2500,x+lElevation,y+lm"),
       Show(959, "fig") >>
MX_view ==
    << NewFig(991, "fig"),
       [MakecptSealand(993) EXCEPT !.var = "topo_cpt"],
       Assign(994, "frame", {}, "[xa5f1, ya5f1, z5000+lmeters, wSEnZ]"),
       [GrdviewMars(996, "dset_olympus", "M18c", "topo_cpt", {"frame", "topo_cpt"})
           EXCEPT !.arg = "plane=-5000+ggrey;shading=+a100+nt1;contourpen=0.1p"],
       ColorbarElevation(1009, "a5000,x+lElevation,y+lm"),
       Assign(1011, "bounds", {}, "[[210,13],[210,25],[240,25],[240,13],[210,13]]"),
       Inset(1017),
       [Stmt(1019, "grdimage", "fig", {"fig", "dset_mars_topo"}) EXCEPT
           !.data = "dset_mars_topo", !.region = "g", !.frame = "g",
           !.projection = "G225/19/3.5c"],
       [Stmt(1020, "plot", "fig", {"fig", "bounds"}) EXCEPT
           !.data = "bounds", !.arg = "pen=1p,red"],
       End(1020),
       Show(1021, "fig") >>
MX_relief ==
    << Assign(1046, "topo_hawaii", {"pygmt"}, "load_earth_relief([-170,-140,13,25], 05m)"),
       Assign(1049, "topo_globe", {"pygmt"}, "load_earth_relief([-180,180,-90,90], 01d)") >>
MX_hawaii ==
    << NewFig(1074, "fig"),
       [Stmt(1076, "grdimage", "fig", {"fig", "topo_hawaii"}) EXCEPT
           !.data = "topo_hawaii", !.projection = "M12c",
           !.frame = "a5f1", !.cmap = "geo"],
       ColorbarElevation(1078, "a2500,x+lElevation,y+lm"),
       Show(1080, "fig") >>
MX_hawaiiview ==
    << NewFig(1105, "fig"),
       Assign(1107, "frame", {}, "[xa5f1, ya5f1, z5000+lmeters, wSEnZ]"),
       [MakecptSealand(1109) EXCEPT !.var = "topo_cpt"],
       [GrdviewMars(1111, "topo_hawaii", "M15c", "topo_cpt", {"frame", "topo_cpt"})
           EXCEPT !.arg = "plane=-5000+ggrey;shading=+a100+nt1;contourpen=0.1p"],
       ColorbarElevation(1124, "a5000,x+lElevation,y+lm"),
       Assign(1126, "bounds", {}, "[[-170,13],[-170,25],[-140,25],[-140,13],[-170,13]]"),
       Inset(1132),
       [Stmt(1134, "grdimage", "fig", {"fig", "topo_globe"}) EXCEPT
           !.data = "topo_globe", !.region = "g", !.frame = "g",
           !.projection = "G-160/19/3.5c"],
       [Stmt(1135, "coast", "fig", {"fig"}) EXCEPT
           !.region = "g", !.shorelines = "thin", !.frame = "g"],
       [Stmt(1136, "plot", "fig", {"fig", "bounds"}) EXCEPT
           !.data = "bounds", !.arg = "pen=1p,red"],
       End(1136),
       Show(1138, "fig") >>
MX_sidebyside ==
    << NewFig(1163, "fig"),
       [Stmt(1165, "subplot", "fig", {"fig"}) EXCEPT !.arg = "nrows=1,ncols=2"],
       [Stmt(1168, "set_panel", "fig", {"fig"}) EXCEPT !.arg = "0"],
       [MakecptSealand(1170) EXCEPT !.var = "topo_cpt"],
       Assign(1172, "frame", {}, "[xa5f1, ya5f1, z5000+lmeters, wSEnZ]"),
       [GrdviewMars(1174, "dset_olympus", "M", "topo_cpt", {"frame", "topo_cpt"})
           EXCEPT !.arg = "plane=-5000+ggrey;shading=+a100+nt1;contourpen=0.1p"],
       End(1185),
       [Stmt(1190, "set_panel", "fig", {"fig"}) EXCEPT !.arg = "1"],
       Assign(1191, "frame", {}, "[xa5f1, ya5f1, z5000+lmeters, wSEnZ]"),
       [MakecptSealand(1193) EXCEPT !.var = "topo_cpt"],
       [GrdviewMars(1195, "topo_hawaii", "M", "topo_cpt", {"frame", "topo_cpt"})
           EXCEPT !.arg = "plane=-5000+ggrey;shading=+a100+nt1;contourpen=0.1p"],
       ColorbarElevation(1208, "a5000,x+lElevation,y+lm"),
       End(1208),
       End(1208),
       Show(1210, "fig") >>
MX_zhurong ==
    << NewFig(1230, "fig"),
       [Stmt(1233, "grdimage", "fig", {"fig", "dset_mars_topo"}) EXCEPT
           !.data = "dset_mars_topo", !.region = "g", !.frame = "g",
           !.projection = "G109.926/25.066/12c", !.arg = "shading=+a100+nt1"],
       Assign(1235, "zhurong", {}, "[109.926, 25.066]"),
       Assign(1236, "Olympus", {}, "[360-210, 19.0]"),
       [Stmt(1239, "plot", "fig", {"fig", "zhurong"}) EXCEPT
           !.data = "zhurong", !.style = "a0.5c", !.color = "darkorange",
           !.arg = "pen=1p,black"],
       [Stmt(1240, "text", "fig", {"fig", "zhurong"}) EXCEPT !.arg = "Zhurong"],
       [Stmt(1242, "text", "fig", {"fig", "Olympus"}) EXCEPT !.arg = "Olympus Mons"],
       ColorbarElevation(1244, "a5000,x+lElevation,y+lm"),
       Show(1245, "fig") >>

MarsExtended ==
    << MX_colab, MX_wget, MX_inline, MX_open, MX_sample, MX_global,
       MX_olympus, MX_map, MX_view, MX_relief, MX_hawaii, MX_hawaiiview,
       MX_sidebyside, MX_zhurong >>

(***************************************************************************)
(* The notebooks and their names.                                          *)
(***************************************************************************)

Notebooks == {"first-figure", "lidar_to_surface", "ecosystem", "Mars_Maps", "Mars_Maps_extended"}

Cells(n) ==
    CASE n = "first-figure" -> FirstFigure
      [] n = "lidar_to_surface" -> Lidar
      [] n = "ecosystem" -> Ecosystem
      [] n = "Mars_Maps" -> Mars
      [] n = "Mars_Maps_extended" -> MarsExtended

\* The variables that hold a figure.
FigVars == {"fig", "fig2", "fig3", "view.fig"}

\* Every other name a notebook binds.
DataVars ==
    {"pygmt", "region", "data",
     "laspy", "pd", "rioxarray", "xr", "lazfile", "lazdata", "df",
     "df_filtered", "df_trimmed", "grid", "filenames",
     "gpd", "world", "cmap_bounds", "pn", "url", "netcdf_file", "woa_temp",
     "depth_slider", "view",
     "dset_mars", "dset_mars_topo", "dset_olympus", "bounds", "topo_cpt",
     "frame", "topo_hawaii", "topo_globe", "zhurong", "Olympus"}

Names == FigVars \cup DataVars

(***************************************************************************)
(* What PyGMT does.                                                        *)
(***************************************************************************)

\* No colour palette.
NoCPT == [site |-> 0, cmap |-> "-", series |-> "-"]

\* pygmt.Figure(): a blank canvas.  It has no plot element, no region, no
\* projection and no current colour palette, and no block is open on it.
BlankFigure ==
    [stack |-> << >>, region |-> "-", projection |-> "-", cpt |-> NoCPT,
     ctx |-> << >>]

PlotOps == {"coast", "basemap", "plot", "grdimage", "grdview", "colorbar", "text"}
GridOps == {"grdimage", "grdview"}
BindOps == {"import", "assign", "def"}
CtxOps == {"inset", "subplot", "set_panel", "end"}
\* Statements that change nothing the model follows.
PlainOps == {"expr", "shell", "magic", "for", "return"}
FileOps == {"savefig", "to_raster"}

\* A keyword argument that names a variable stands for the variable's value.
Value(vals, a) == IF a \in Names THEN vals[a] ELSE a

\* A figure that would not remember the region it was given.
UseRegion_forgotten(f, s, vals) ==
    IF s.region # "-" THEN Value(vals, s.region)
    ELSE IF s.op \in GridOps THEN s.data
    ELSE "-"
\* The region a plotting call works in: the one it is given; else the last
\* one provided to the figure; else, for a call that plots a grid, the
\* grid's own; else none.
UseRegion(f, s, vals) ==
    IF s.region # "-" THEN Value(vals, s.region)
    ELSE IF f.region # "-" THEN f.region
    ELSE IF s.op \in GridOps THEN s.data
    ELSE "-"

\* The projection is remembered like the region; with none given yet PyGMT
\* picks its default.
UseProjection(f, s) ==
    IF s.projection # "-" THEN s.projection
    ELSE IF f.projection # "-" THEN f.projection
    ELSE "default"

\* The colour palette a plotting call paints with.  cmap=True is the
\* figure's current palette.  A grid call given a master palette's name
\* scales it to the grid; given none it takes the current palette and, if
\* there is none, the default scaled to the grid.
UseCPT(f, s, vals) ==
    CASE s.op \in GridOps ->
           IF s.cmap = "True" THEN f.cpt
           ELSE IF s.cmap # "-" /\ s.cmap \notin Names
                THEN [site |-> s.line, cmap |-> s.cmap, series |-> s.data]
           ELSE IF f.cpt # NoCPT THEN f.cpt
           ELSE [site |-> s.line, cmap |-> "default", series |-> s.data]
      [] s.op = "colorbar" -> f.cpt
      [] s.op = "plot" -> IF s.cmap = "True" THEN f.cpt ELSE NoCPT
      [] OTHER -> NoCPT

\* The blocks open on a figure, outermost first.
CtxPath(f) == [i \in 1..Len(f.ctx) |-> f.ctx[i].kind]

\* One plot element.
Element(s, layer, desc, f, r, p, c) ==
    [site |-> s.line, layer |-> layer, desc |-> desc, region |-> r,
     projection |-> p, cpt |-> c, ctx |-> CtxPath(f)]

FrameOf(s, f, r, p) ==
    IF s.frame = "-" THEN << >>
    ELSE << Element(s, "frame", << s.frame >>, f, r, p, NoCPT) >>

\* A coast that would draw its shorelines first and fill over them.
CoastLayers_shorelines_first(s, f, r, p) ==
    (IF s.shorelines = "-" THEN << >>
     ELSE << Element(s, "shorelines", << s.shorelines >>, f, r, p, NoCPT) >>)
    \o (IF s.land = "-" /\ s.water = "-" THEN << >>
        ELSE << Element(s, "fill", << s.land, s.water >>, f, r, p, NoCPT) >>)
    \o FrameOf(s, f, r, p)
\* The elements one coast call lays, bottom first: the land and water
\* fills, then the shorelines on top of them, then the frame if asked for.
CoastLayers(s, f, r, p) ==
    (IF s.land = "-" /\ s.water = "-" THEN << >>
     ELSE << Element(s, "fill", << s.land, s.water >>, f, r, p, NoCPT) >>)
    \o (IF s.shorelines = "-" THEN << >>
        ELSE << Element(s, "shorelines", << s.shorelines >>, f, r, p, NoCPT) >>)
    \o FrameOf(s, f, r, p)

\* The elements a plotting call lays, bottom first.
Layers(s, f, r, p, c) ==
    CASE s.op = "coast" -> CoastLayers(s, f, r, p)
      [] s.op = "basemap" -> FrameOf(s, f, r, p)
      [] s.op = "plot" ->
           << Element(s, IF s.style = "-" THEN "lines" ELSE "symbols",
                      << s.data, s.style, s.color >>, f, r, p, c) >>
      [] s.op = "grdimage" ->
           << Element(s, "image", << s.data, s.arg >>, f, r, p, c) >>
           \o FrameOf(s, f, r, p)
      [] s.op = "grdview" ->
           << Element(s, "surface", << s.data, s.arg >>, f, r, p, c) >>
           \o FrameOf(s, f, r, p)
      [] s.op = "colorbar" ->
           << Element(s, "colorbar", << s.frame >>, f, r, p, c) >>
      [] s.op = "text" ->
           << Element(s, "text", << s.arg >>, f, r, p, c) >>

\* A canvas that would slide new elements underneath the old ones.
Lay_underneath(stack, elements) == elements \o stack
\* Plot elements go on top of what the canvas already holds.
Lay(stack, elements) == stack \o elements

\* A grid call makes the palette it painted with the figure's current one.
CptAfter(f, s, c) == IF s.op \in GridOps THEN c ELSE f.cpt

\* A plotting call on figure f: the figure as the call leaves it.
Plotted(f, s, vals) ==
    LET r == UseRegion(f, s, vals)
        p == UseProjection(f, s)
        c == UseCPT(f, s, vals)
    IN  [f EXCEPT !.stack = Lay(@, Layers(s, f, r, p, c)),
                  !.region = r, !.projection = p, !.cpt = CptAfter(f, s, c)]

\* A makecpt whose palette would not become the current one.
Makecpt_not_current(f, s) == f
\* makecpt makes its palette the current one of the active figure.
Makecpt(f, s) ==
    [f EXCEPT !.cpt = [site |-> s.line, cmap |-> s.cmap, series |-> s.arg]]

\* Entering a block keeps the region and projection in force outside it;
\* a subplot panel starts with none of its own.
Enter(f, s) ==
    LET inner == [f EXCEPT !.ctx = Append(@, [kind |-> s.op, arg |-> s.arg,
                                                   region |-> f.region,
                                                   projection |-> f.projection])]
    IN  IF s.op = "set_panel"
        THEN [inner EXCEPT !.region = "-", !.projection = "-"]
        ELSE inner

\* Leaving the innermost block restores them.
Leave(f) ==
    IF f.ctx = << >> THEN f
    ELSE LET top == f.ctx[Len(f.ctx)]
         IN  [f EXCEPT !.ctx = SubSeq(@, 1, Len(@) - 1),
                       !.region = top.region, !.projection = top.projection]

\* An exception leaves every open block.
RECURSIVE Unwind(_)
Unwind(f) == IF f.ctx = << >> THEN f ELSE Unwind(Leave(f))

(***************************************************************************)
(* The kernel.                                                             *)
(***************************************************************************)

\* The kernel's state as one record: K.vals the value of every name ("-":
\* not bound), K.figs the figure each figure variable holds, K.active the
\* figure variable whose figure PyGMT has activated last, K.files what
\* savefig and to_raster wrote, K.err the exception raised.
NoFile == [from |-> "-", stack |-> << >>]

FreshKernel ==
    [vals |-> [n \in Names |-> "-"],
     figs |-> [v \in FigVars |-> BlankFigure],
     active |-> "-",
     files |-> [x \in {"wellington_1d_lidar.png", "wellington_2d_dsm_map.png",
                       "wellington_3d_dsm_view.png", "DSM_of_Wellington.tif"} |-> NoFile],
     err |-> "-"]

Raise(K, e) ==
    [K EXCEPT !.err = e, !.figs = [v \in FigVars |-> Unwind(K.figs[v])]]

\* A statement that reads a name not bound raises NameError.
Unbound(K, s) == \E n \in s.reads : K.vals[n] = "-"

\* A pygmt.Figure() that would hand back the canvas its variable held
\* before instead of a blank one.
Figure_reused(K, s) ==
    [K EXCEPT !.vals[s.var] = "Figure", !.active = s.var]
\* fig = pygmt.Figure(): the variable holds a new, blank figure, which is
\* the active one from now on.
Figure(K, s) ==
    [K EXCEPT !.vals[s.var] = "Figure", !.figs[s.var] = BlankFigure,
              !.active = s.var]

\* One statement, all names it reads being bound.
Run(K, s) ==
    CASE s.op \in BindOps ->
           [K EXCEPT !.vals[s.var] = IF s.op = "assign" THEN s.arg ELSE s.op]
      [] s.op = "Figure" -> Figure(K, s)
      [] s.op \in PlotOps ->
           IF UseRegion(K.figs[s.var], s, K.vals) = "-"
           THEN Raise([K EXCEPT !.active = s.var], "RegionError")
           ELSE [K EXCEPT !.figs[s.var] = Plotted(@, s, K.vals),
                          !.active = s.var]
      [] s.op = "makecpt" ->
           LET bound == IF s.var = "-" THEN K
                        ELSE [K EXCEPT !.vals[s.var] = "None"]
           IN  IF K.active = "-" THEN bound
               ELSE [bound EXCEPT !.figs[K.active] = Makecpt(@, s)]
      [] s.op = "show" -> [K EXCEPT !.active = s.var]
      [] s.op \in {"inset", "subplot", "set_panel"} ->
           [K EXCEPT !.figs[s.var] = Enter(@, s), !.active = s.var]
      [] s.op = "end" -> [K EXCEPT !.figs[s.var] = Leave(@)]
      [] s.op = "savefig" ->
           [K EXCEPT !.files[s.arg] = [from |-> s.var, stack |-> K.figs[s.var].stack],
                     !.active = s.var]
      [] s.op = "to_raster" ->
           [K EXCEPT !.files[s.arg] = [from |-> K.vals[s.var], stack |-> << >>]]
      [] OTHER -> K

Exec(K, s) == IF Unbound(K, s) THEN Raise(K, "NameError") ELSE Run(K, s)

\* A whole cell (or function body): statement after statement, up to the
\* first exception.
RECURSIVE RunAll(_, _)
RunAll(K, stmts) ==
    IF stmts = << >> \/ K.err # "-" THEN K
    ELSE RunAll(Exec(K, Head(stmts)), Tail(stmts))

(***************************************************************************)
(* A Jupyter session on one notebook.                                      *)
(***************************************************************************)

VARIABLES
    nb,      \* the notebook the session has open
    kernel,  \* the kernel's state
    cur,     \* the cell being executed (its position in the notebook), 0: none
    pc,      \* the statement of that cell to execute next
    docpc,   \* k: so far cells 1..k were run, once each, in document order;
             \* -1: the reader has left the document order
    jumps    \* how many cells the reader ran out of the document order

\* The dashboard of the ecosystem notebook.
VARIABLES
    slider,  \* the depth the slider shows in the browser
    events,  \* the value changes sent to the kernel and not handled yet
    pane,    \* the figure the dashboard displays
    moves    \* how often the user has moved the slider

\* The data of the LiDAR notebook.
VARIABLES
    step,        \* the cell of the processing chain to run next
    lazfile,     \* the points of the LAZ file
    df,
    region,
    df_trimmed,
    grid,
    fig2,
    fig3,
    tif,         \* the content of DSM_of_Wellington.tif
    filenames,   \* the point clouds listed in the bonus cell, as their content
    loaded       \* how many of them the loop has loaded

\* The data of the ecosystem notebook's population cells.
VARIABLES
    naturalearth,  \* the countries of the naturalearth_lowres file
    world,
    cmap_bounds,
    runs           \* how often the population cell ran on world; -1: the
                   \* file is not read yet

session == << nb, kernel, cur, pc, docpc, jumps >>
dashboard == << slider, events, pane, moves >>
pipeline == << step, lazfile, df, region, df_trimmed, grid, fig2, fig3, tif,
              filenames, loaded >>
population == << naturalearth, world, cmap_bounds, runs >>

\* The reader of the book's welcome page.
VARIABLES
    page,          \* the page of the book the reader is on
    clicks         \* the panels of the welcome page the reader clicked

welcome == << page, clicks >>
vars == << session, dashboard, pipeline, population, welcome >>

\* No region, no table, no grid, no image yet.
NoRegion == [w |-> 0, e |-> 0, s |-> 0, n |-> 0]
NoGrid == [region |-> NoRegion, points |-> << >>]
NoImage == [grid |-> NoGrid, region |-> NoRegion]

DashboardNotShown ==
    /\ slider = "0"
    /\ events = << >>
    /\ pane = BlankFigure
    /\ moves = 0

\* A number m * 10^e.
Number(m, e) == [m |-> m, e |-> e]
NoBounds == << Number(0, 0), Number(0, 0) >>

\* The reader has opened the book: its first page is the welcome page.
OnWelcomePage ==
    /\ page = "intro"
    /\ clicks = << >>

WorldNotRead ==
    /\ naturalearth = << >>
    /\ world = << >>
    /\ cmap_bounds = NoBounds
    /\ runs = -1

NothingLoaded ==
    /\ step = "load"
    /\ lazfile = << >>
    /\ df = << >>
    /\ region = NoRegion
    /\ df_trimmed = << >>
    /\ grid = NoGrid
    /\ fig2 = NoImage
    /\ fig3 = NoImage
    /\ tif = NoGrid
    /\ filenames = << >>
    /\ loaded = 0

Init ==
    /\ nb \in Notebooks
    /\ kernel = FreshKernel
    /\ cur = 0
    /\ pc = 0
    /\ docpc = 0
    /\ jumps = 0
    /\ DashboardNotShown
    /\ OnWelcomePage
    /\ WorldNotRead
    /\ NothingLoaded

Cell == Cells(nb)[cur]
Next_stmt == Cell[pc]

\* The reader runs cell c: the next cell of the document (Shift+Enter), or
\* any cell they select.  Nothing else runs while a cell executes.
StartCell(c) ==
    /\ cur = 0
    /\ \/ docpc >= 0 /\ c = docpc + 1 /\ docpc' = c /\ jumps' = jumps
       \/ jumps < MaxJumps /\ docpc' = -1 /\ jumps' = jumps + 1
    /\ kernel' = [kernel EXCEPT !.err = "-"]
    /\ cur' = IF Cells(nb)[c] = << >> THEN 0 ELSE c
    /\ pc' = IF Cells(nb)[c] = << >> THEN 0 ELSE 1
    /\ UNCHANGED << nb, dashboard, pipeline, population, welcome >>

\* The kernel moves on to the next statement; an exception, or the end
\* of the cell, ends the execution of the cell.
Advance(K) ==
    /\ kernel' = K
    /\ IF K.err # "-" \/ pc = Len(Cell)
       THEN cur' = 0 /\ pc' = 0
       ELSE cur' = cur /\ pc' = pc + 1
    /\ UNCHANGED << nb, docpc, jumps, dashboard, pipeline, population, welcome >>

Executes(ops) == cur # 0 /\ Next_stmt.op \in ops /\ ~Unbound(kernel, Next_stmt)

RaiseNameError ==
    /\ cur # 0
    /\ Unbound(kernel, Next_stmt)
    /\ Advance(Exec(kernel, Next_stmt))

Bind == Executes(BindOps) /\ Advance(Exec(kernel, Next_stmt))
Evaluate == Executes(PlainOps) /\ Advance(Exec(kernel, Next_stmt))
CreateFigure == Executes({"Figure"}) /\ Advance(Exec(kernel, Next_stmt))
PlotCall == Executes(PlotOps) /\ Advance(Exec(kernel, Next_stmt))
MakeCPT == Executes({"makecpt"}) /\ Advance(Exec(kernel, Next_stmt))
ShowFigure == Executes({"show"}) /\ Advance(Exec(kernel, Next_stmt))
Block == Executes(CtxOps) /\ Advance(Exec(kernel, Next_stmt))
WriteFile == Executes(FileOps) /\ Advance(Exec(kernel, Next_stmt))

Next ==
    \/ \E c \in 1..Len(Cells(nb)) : StartCell(c)
    \/ RaiseNameError
    \/ Bind
    \/ Evaluate
    \/ CreateFigure
    \/ PlotCall
    \/ MakeCPT
    \/ ShowFigure
    \/ Block
    \/ WriteFile

Spec == Init /\ [][Next]_vars

(***************************************************************************)
(* The dashboard pn.Column(depth_slider, view) of the ecosystem notebook.  *)
(***************************************************************************)

\* How often the user moves the slider.
MaxMoves == 4

\* The slider's options (woa_temp.depth.values, line 197): the first depth
\* levels of the World Ocean Atlas, in metres.
Depths == {"0", "5", "10", "15"}

\* A whole notebook, top to bottom.
RECURSIVE RunCells(_, _)
RunCells(K, cells) ==
    IF cells = << >> THEN K
    ELSE RunCells(RunAll([K EXCEPT !.err = "-"], Head(cells)), Tail(cells))

\* A view that would plot the surface whatever depth it is called with.
View_surface_only(K, depth) == RunAll(K, ViewBody("0"))
\* view(depth=depth), lines 209-215: the kernel after the call; the figure
\* returned is K.figs["view.fig"].
View(K, depth) == RunAll(K, ViewBody(depth))

\* The depth of the map a figure shows.
DepthShown(f) == IF f.stack = << >> THEN "-" ELSE f.stack[1].desc[2]

\* The notebook has been run top to bottom: the last cell displays the
\* column, with the map view() renders for the slider's initial value.
InitDash ==
    /\ nb = "ecosystem"
    /\ kernel = RunCells(FreshKernel, Ecosystem)
    /\ cur = 0
    /\ pc = 0
    /\ docpc = Len(Ecosystem)
    /\ jumps = 0
    /\ slider = "0"
    /\ events = << >>
    /\ pane = kernel.figs["view.fig"]
    /\ moves = 0
    /\ NothingLoaded
    /\ WorldNotRead
    /\ OnWelcomePage

\* The user selects another depth; the browser sends the new value to the
\* kernel.
MoveSlider(d) ==
    /\ moves < MaxMoves
    /\ d # slider
    /\ slider' = d
    /\ events' = Append(events, d)
    /\ moves' = moves + 1
    /\ UNCHANGED << pane, session, pipeline, population, welcome >>

\* The kernel handles the oldest value change: depth_slider.value becomes d,
\* which, through pn.depends(depth=depth_slider), calls view(depth=d); the
\* figure returned replaces the one displayed.
HandleEvent ==
    /\ events # << >>
    /\ cur = 0
    /\ LET K == View([kernel EXCEPT !.err = "-"], Head(events))
       IN  /\ kernel' = K
           /\ pane' = IF K.err = "-" THEN K.figs["view.fig"] ELSE pane
    /\ events' = Tail(events)
    /\ UNCHANGED << slider, moves, nb, cur, pc, docpc, jumps, pipeline, population, welcome >>

NextDash ==
    \/ \E d \in Depths : MoveSlider(d)
    \/ HandleEvent

\* A HandleEvent step, as seen on the queue.
Handled == events # << >> /\ events' = Tail(events)

\* The kernel's event loop is idle between cells, so a value change that is
\* waiting is handled.
SpecDash == InitDash /\ [][NextDash]_vars /\ WF_events(Handled)

\* C7: every change of the slider to d calls view(depth=d), and once the
\* user stops moving the slider the map displayed is eventually, and from
\* then on, the one rendered for the slider's current value.
C7_DashboardFollowsSlider ==
    /\ [][slider' # slider => events' = Append(events, slider')]_vars
    /\ [][(events # << >> /\ events' = Tail(events)) =>
             /\ pane' = View(kernel, Head(events)).figs["view.fig"]
             /\ DepthShown(pane') = Head(events)]_vars
    /\ [](events = << >> => DepthShown(pane) = slider)
    /\ <>[](events = << >> /\ DepthShown(pane) = slider)

\* The user has moved the slider as often as they will, and the
\* map displayed is the one of the depth selected last.
C7_LastSelectionDisplayed ==
    /\ moves = MaxMoves /\ events = << >>
    /\ slider = "10" /\ DepthShown(pane) = "10"
    /\ pane.stack[1].site = 213

(***************************************************************************)
(* The LiDAR notebook on data: from the LAZ file to DSM_of_Wellington.tif. *)
(*                                                                         *)
(* A point is a record [x, y, z, classification]; a table (DataFrame) is a *)
(* sequence of rows.  Horizontal coordinates are whole numbers of 1/Scale  *)
(* metre, counted from the south-west corner of the tile.                  *)
(***************************************************************************)

\* Coordinate units per metre.
Scale == 2
\* The most points a small point cloud holds.
MaxPoints == 3

Xs == {0, 1, 4}
Ys == {0}
Zs == {10, 20}
\* LAS classification codes: 2 ground, 18 high noise.
Classes == {2, 18}
Points == [x : Xs, y : Ys, z : Zs, classification : Classes]

\* Small clouds, and clouds that have very many returns in one square metre.
DenseSizes == {99, 100, 101}
DenseCloud(n) == [i \in 1..n |-> [x |-> 0, y |-> 0, z |-> i, classification |-> 2]]
Clouds ==
    UNION {[1..n -> Points] : n \in 1..MaxPoints} \cup {DenseCloud(n) : n \in DenseSizes}

Column(table, c) == [i \in DOMAIN table |-> table[i][c]]
Range(f) == {f[i] : i \in DOMAIN f}
Min(S) == CHOOSE m \in S : \A v \in S : m <= v
Max(S) == CHOOSE m \in S : \A v \in S : m >= v

\* pygmt.info(data=df[["x", "y"]], spacing=1), line 154: the bounding box of
\* the points, rounded outwards to whole metres.
Info(table) ==
    LET down(u) == (u \div Scale) * Scale
        up(u) == ((u + Scale - 1) \div Scale) * Scale
    IN  [w |-> down(Min(Range(Column(table, "x")))),
         e |-> up(Max(Range(Column(table, "x")))),
         s |-> down(Min(Range(Column(table, "y")))),
         n |-> up(Max(Range(Column(table, "y"))))]

\* A query that would keep the high-noise points and drop the others.
Query_keeps_noise(table) ==
    LET noise(p) == p.classification = 18 IN SelectSeq(table, noise)
\* df.query(expr="classification != 18"), line 265.
Query(table) ==
    LET keep(p) == p.classification # 18 IN SelectSeq(table, keep)

\* T=0.99, line 306.
T == [num |-> 99, den |-> 100]

\* The k-th smallest of a sequence of numbers.
Kth(vals, k) ==
    CHOOSE v \in Range(vals) :
        /\ Cardinality({i \in DOMAIN vals : vals[i] < v}) < k
        /\ k <= Cardinality({i \in DOMAIN vals : vals[i] <= v})

\* The quantile q of the values, doubled (so that the mean of two values is
\* a whole number).  As GMT's blockmedian finds it: walk up the sorted
\* values, each weighing 1, until the weight passed reaches q times the
\* number of values; if it is reached exactly, take the mean of that value
\* and the next one.
Quantile2(vals, q) ==
    LET count == Len(vals)
        node == CHOOSE k \in 1..count :
                    /\ k * q.den >= q.num * count
                    /\ \A j \in 1..(k - 1) : j * q.den < q.num * count
    IN  IF node * q.den = q.num * count
        THEN Kth(vals, node) + Kth(vals, node + 1)
        ELSE 2 * Kth(vals, node)

\* The 1 m x 1 m block (spacing="1+e") a position, given in half units,
\* falls in: blocks are centred on the whole metres of the region.
BlockAt(x2, y2, r) ==
    [col |-> (x2 - 2 * r.w + Scale) \div (2 * Scale),
     row |-> (y2 - 2 * r.s + Scale) \div (2 * Scale)]
BlockOf(p, r) == BlockAt(2 * p.x, 2 * p.y, r)

Inside(p, r) == r.w <= p.x /\ p.x <= r.e /\ r.s <= p.y /\ p.y <= r.n

\* Blocks in the order blockmedian writes them: row by row.
RECURSIVE InOrder(_)
InOrder(blocks) ==
    IF blocks = {} THEN << >>
    ELSE LET first == CHOOSE b \in blocks : \A c \in blocks :
                          b.row < c.row \/ (b.row = c.row /\ b.col <= c.col)
         IN  << first >> \o InOrder(blocks \ {first})

\* pygmt.blockmedian(data=df[["x", "y", "z"]], T=0.99, spacing="1+e",
\* region=region), lines 304-309: one row for every block that holds a
\* point, with the quantile of the x, of the y and of the z of the points in
\* the block.  The rows hold doubled values.
Blockmedian(table, r) ==
    LET inside(p) == Inside(p, r)
        data == SelectSeq(table, inside)
        blocks == InOrder({BlockOf(data[i], r) : i \in DOMAIN data})
        Row(b) ==
            LET here(p) == BlockOf(p, r) = b
                pts == SelectSeq(data, here)
            IN  [x |-> Quantile2(Column(pts, "x"), T),
                 y |-> Quantile2(Column(pts, "y"), T),
                 z |-> Quantile2(Column(pts, "z"), T)]
    IN  [i \in DOMAIN blocks |-> Row(blocks[i])]

\* pygmt.surface(x, y, z, spacing="1+e", region=region, T=0.35), lines
\* 343-350: a grid that covers the region and interpolates the points.
Surface(table, r) == [region |-> r, points |-> table]

\* The region of fig2's basemap, line 403 (in metres of the map grid).
Fig2Region == [w |-> 1749760, e |-> 1750240, s |-> 5426880, n |-> 5427600]

\* fig2.grdimage(grid=grid, cmap=True), line 407: the grid, in the region
\* of the figure.
Grdimage(g, r) == [grid |-> g, region |-> r, shading |-> FALSE]
\* fig3.grdview(grid=grid, ...), lines 437 and 467: the grid, over its own
\* region.
Grdview(g, shading) == [grid |-> g, region |-> g.region, shading |-> shading]

\* The cells of the chain, run top to bottom, as one function of the file.
Notebook(cloud) ==
    LET r == Info(cloud)
        trimmed == Blockmedian(Query(cloud), r)
        g == Surface(trimmed, r)
    IN  [region |-> r, df |-> Query(cloud), df_trimmed |-> trimmed, grid |-> g,
         fig2 |-> Grdimage(g, Fig2Region), fig3 |-> Grdview(g, TRUE), tif |-> g]

InitLidar ==
    /\ nb = "lidar_to_surface"
    /\ kernel = FreshKernel
    /\ cur = 0
    /\ pc = 0
    /\ docpc = 0
    /\ jumps = 0
    /\ DashboardNotShown
    /\ OnWelcomePage
    /\ WorldNotRead
    /\ step = "load"
    /\ lazfile \in Clouds
    /\ df = << >>
    /\ region = NoRegion
    /\ df_trimmed = << >>
    /\ grid = NoGrid
    /\ fig2 = NoImage
    /\ fig3 = NoImage
    /\ tif = NoGrid
    /\ filenames = << >>
    /\ loaded = 0

\* Lines 121-129.
LoadLAZ ==
    /\ step = "load"
    /\ df' = lazfile
    /\ step' = "info"
    /\ UNCHANGED << lazfile, region, df_trimmed, grid, fig2, fig3, tif >>
    /\ UNCHANGED << session, dashboard, filenames, loaded, population, welcome >>

\* Lines 154-155.
GetRegion ==
    /\ step = "info"
    /\ region' = Info(df)
    /\ step' = "query"
    /\ UNCHANGED << lazfile, df, df_trimmed, grid, fig2, fig3, tif >>
    /\ UNCHANGED << session, dashboard, filenames, loaded, population, welcome >>

\* Lines 265-266.
RemoveNoise ==
    /\ step = "query"
    /\ df' = Query(df)
    /\ step' = "blockmedian"
    /\ UNCHANGED << lazfile, region, df_trimmed, grid, fig2, fig3, tif >>
    /\ UNCHANGED << session, dashboard, filenames, loaded, population, welcome >>

\* Lines 304-310.
BlockMedian ==
    /\ step = "blockmedian"
    /\ df_trimmed' = Blockmedian(df, region)
    /\ step' = "surface"
    /\ UNCHANGED << lazfile, df, region, grid, fig2, fig3, tif >>
    /\ UNCHANGED << session, dashboard, filenames, loaded, population, welcome >>

\* Lines 343-350.  With no point to interpolate surface raises an error,
\* and the cells after it have no grid to work on.
MakeSurface ==
    /\ step = "surface"
    /\ IF df_trimmed = << >>
       THEN step' = "failed" /\ grid' = grid
       ELSE step' = "fig2" /\ grid' = Surface(df_trimmed, region)
    /\ UNCHANGED << lazfile, df, region, df_trimmed, fig2, fig3, tif >>
    /\ UNCHANGED << session, dashboard, filenames, loaded, population, welcome >>

\* Lines 400-409.
DrawFig2 ==
    /\ step = "fig2"
    /\ fig2' = Grdimage(grid, Fig2Region)
    /\ step' = "fig3"
    /\ UNCHANGED << lazfile, df, region, df_trimmed, grid, fig3, tif >>
    /\ UNCHANGED << session, dashboard, filenames, loaded, population, welcome >>

\* Lines 436-444.
DrawFig3 ==
    /\ step = "fig3"
    /\ fig3' = Grdview(grid, FALSE)
    /\ step' = "fig3 shaded"
    /\ UNCHANGED << lazfile, df, region, df_trimmed, grid, fig2, tif >>
    /\ UNCHANGED << session, dashboard, filenames, loaded, population, welcome >>

\* Lines 466-481.
DrawFig3Shaded ==
    /\ step = "fig3 shaded"
    /\ fig3' = Grdview(grid, TRUE)
    /\ step' = "to_raster"
    /\ UNCHANGED << lazfile, df, region, df_trimmed, grid, fig2, tif >>
    /\ UNCHANGED << session, dashboard, filenames, loaded, population, welcome >>

\* Line 531.
ToRaster ==
    /\ step = "to_raster"
    /\ tif' = grid
    /\ step' = "done"
    /\ UNCHANGED << lazfile, df, region, df_trimmed, grid, fig2, fig3 >>
    /\ UNCHANGED << session, dashboard, filenames, loaded, population, welcome >>

NextLidar ==
    \/ LoadLAZ
    \/ GetRegion
    \/ RemoveNoise
    \/ BlockMedian
    \/ MakeSurface
    \/ DrawFig2
    \/ DrawFig3
    \/ DrawFig3Shaded
    \/ ToRaster

SpecLidar == InitLidar /\ [][NextLidar]_vars

(***************************************************************************)
(* The bonus cell of the LiDAR notebook (lines 588-606): the reader lists  *)
(* point clouds of their own and the loop loads them into one DataFrame.   *)
(* Here a row carries its index label.                                     *)
(***************************************************************************)

\* The most files a reader lists.
MaxFiles == 2

\* The tiles a reader may list: one or two ground returns each.
Tiles ==
    {c \in Clouds : Len(c) <= 2 /\ \A i \in DOMAIN c :
                        c[i].classification = 2 /\ c[i].z = 10}
FileLists == UNION {[1..n -> Tiles] : n \in 0..MaxFiles}

Labelled(i, p) ==
    [index |-> i, x |-> p.x, y |-> p.y, z |-> p.z, classification |-> p.classification]

\* pd.DataFrame(data={...}), lines 597-604: the points, labelled 0, 1, ...
DataFrame(cloud) == [i \in DOMAIN cloud |-> Labelled(i - 1, cloud[i])]

\* An append that would keep the labels the rows had.
Append_keeping_index(table, other) == table \o other
\* df.append(temp_df, ignore_index=True), line 606 (pandas 1.x): the rows of
\* df, then those of temp_df, labelled anew 0, 1, ...
Append_ignore_index(table, other) ==
    LET all == table \o other
    IN  [i \in DOMAIN all |-> [all[i] EXCEPT !.index = i - 1]]

InitBonus ==
    /\ nb = "lidar_to_surface"
    /\ kernel = FreshKernel
    /\ cur = 0
    /\ pc = 0
    /\ docpc = 0
    /\ jumps = 0
    /\ DashboardNotShown
    /\ OnWelcomePage
    /\ WorldNotRead
    /\ step = "bonus"
    /\ lazfile = << >>
    /\ df = << >>
    /\ region = NoRegion
    /\ df_trimmed = << >>
    /\ grid = NoGrid
    /\ fig2 = NoImage
    /\ fig3 = NoImage
    /\ tif = NoGrid
    /\ filenames \in FileLists
    /\ loaded = 0

\* Lines 588-592: the list as the reader left it; df = pd.DataFrame().
StartBonus ==
    /\ step = "bonus"
    /\ df' = << >>
    /\ loaded' = 0
    /\ step' = "loop"
    /\ UNCHANGED << lazfile, region, df_trimmed, grid, fig2, fig3, tif, filenames >>
    /\ UNCHANGED << session, dashboard, population, welcome >>

\* Lines 593-606, one turn of the loop.
LoadNext ==
    /\ step = "loop"
    /\ loaded < Len(filenames)
    /\ lazfile' = filenames[loaded + 1]
    /\ df' = Append_ignore_index(df, DataFrame(filenames[loaded + 1]))
    /\ loaded' = loaded + 1
    /\ UNCHANGED << step, region, df_trimmed, grid, fig2, fig3, tif, filenames >>
    /\ UNCHANGED << session, dashboard, population, welcome >>

\* The list is exhausted: the cell ends.
EndLoop ==
    /\ step = "loop"
    /\ loaded = Len(filenames)
    /\ step' = "bonus done"
    /\ UNCHANGED << lazfile, df, region, df_trimmed, grid, fig2, fig3, tif,
                    filenames, loaded >>
    /\ UNCHANGED << session, dashboard, population, welcome >>

NextBonus ==
    \/ StartBonus
    \/ LoadNext
    \/ EndLoop

SpecBonus == InitBonus /\ [][NextBonus]_vars

(***************************************************************************)
(* The population cells of the ecosystem notebook on data.  A country is a *)
(* record [name, pop_est]; pop_est is a Number.                            *)
(***************************************************************************)

\* The most countries a file holds.
MaxCountries == 3
\* How often the reader runs the population cell.
MaxRuns == 3

Estimates == {0, 5, 7}
Countries == [name : {"Fiji", "Antarctica"}, pop_est : {Number(p, 0) : p \in Estimates}]
Worlds == UNION {[1..n -> Countries] : n \in 1..MaxCountries}

\* world['pop_est'] = world.pop_est * 1e-6, line 83.
Scaled(table) ==
    [i \in DOMAIN table |-> [table[i] EXCEPT !.pop_est = Number(@.m, @.e - 6)]]

\* world[(world.pop_est>0) & (world.name!="Antarctica")], line 82.
Populated(table) ==
    LET keep(c) == c.pop_est.m > 0 /\ c.name # "Antarctica"
    IN  SelectSeq(table, keep)

\* pygmt.info(data=world['pop_est'], per_column=True), line 86: the least
\* and the greatest value of the column (all of one power of ten).
PopulationBounds(table) ==
    IF table = << >> THEN NoBounds
    ELSE LET ms == {table[i].pop_est.m : i \in DOMAIN table}
             e == table[1].pop_est.e
         IN  << Number(Min(ms), e), Number(Max(ms), e) >>

InitPopulation ==
    /\ nb = "ecosystem"
    /\ kernel = FreshKernel
    /\ cur = 0
    /\ pc = 0
    /\ docpc = 0
    /\ jumps = 0
    /\ DashboardNotShown
    /\ OnWelcomePage
    /\ NothingLoaded
    /\ naturalearth \in Worlds
    /\ world = << >>
    /\ cmap_bounds = NoBounds
    /\ runs = -1

\* Lines 62-63: world = gpd.read_file(...).
ReadWorld ==
    /\ world' = naturalearth
    /\ runs' = 0
    /\ UNCHANGED << naturalearth, cmap_bounds >>
    /\ UNCHANGED << session, dashboard, pipeline, welcome >>

\* Lines 82-87, the whole cell; the reader may run it again.
PopulationCell ==
    /\ runs >= 0
    /\ runs < MaxRuns
    /\ world' = Scaled(Populated(world))
    /\ cmap_bounds' = PopulationBounds(world')
    /\ runs' = runs + 1
    /\ UNCHANGED naturalearth
    /\ UNCHANGED << session, dashboard, pipeline, welcome >>

NextPopulation ==
    \/ ReadWorld
    \/ PopulationCell

SpecPopulation == InitPopulation /\ [][NextPopulation]_vars

(***************************************************************************)
(* The welcome page of the book (intro.md).  Its panels block holds four   *)
(* panels, each with a link-button of type ref: a click opens the page the *)
(* button names as its target.  Texts and headings are written in lower    *)
(* case and without their emoji.                                           *)
(***************************************************************************)

\* How many panels the reader clicks.
MaxClicks == 3

\* The pages of the book and their headings.
Headings ==
    [ p \in {"intro", "first-figure", "ecosystem", "Mars_Maps", "lidar_to_surface"} |->
        CASE p = "intro" -> "welcome to the egu22 pygmt short course"
          [] p = "first-figure" -> "anatomy of a pygmt figure"
          [] p = "ecosystem" -> "integration with the scientific python ecosystem"
          [] p = "Mars_Maps" -> "making some mars maps with pygmt"
          [] p = "lidar_to_surface" -> "lidar point clouds to 3d surfaces" ]

Pages == DOMAIN Headings

\* One panel: its image, the target of its link-button and the button's text.
Panel(line, img, target, text) ==
    [line |-> line, img |-> img, target |-> target, text |-> text]

\* Lines 6-42: the panels block.
IntroPanels ==
    << Panel(12, "first-figure_49_0.png", "first-figure",
             "anatomy of a pygmt figure"),
       Panel(20, "ecosystem_13_1.png", "ecosystem",
             "integration with the scientific python ecosystem"),
       Panel(28, "168939109-e35c9d85-4b2d-4623-abd8-66ed1148cf21.png", "Mars_Maps",
             "making some mars maps with pygmt"),
       Panel(36, "lidar_to_surface_36_0.png", "ecosystem",
             "lidar point clouds to 3d surfaces") >>

InitWelcome ==
    /\ nb = "first-figure"
    /\ kernel = FreshKernel
    /\ cur = 0
    /\ pc = 0
    /\ docpc = 0
    /\ jumps = 0
    /\ DashboardNotShown
    /\ OnWelcomePage
    /\ NothingLoaded
    /\ WorldNotRead

\* The reader clicks the button of the i-th panel: the browser opens the
\* page the button targets.
ClickPanel(i) ==
    /\ page = "intro"
    /\ Len(clicks) < MaxClicks
    /\ page' = IntroPanels[i].target
    /\ clicks' = Append(clicks, i)
    /\ UNCHANGED << session, dashboard, pipeline, population >>

\* The reader goes back to the welcome page.
BackToWelcome ==
    /\ page # "intro"
    /\ page' = "intro"
    /\ UNCHANGED clicks
    /\ UNCHANGED << session, dashboard, pipeline, population >>

NextWelcome ==
    \/ \E i \in DOMAIN IntroPanels : ClickPanel(i)
    \/ BackToWelcome

SpecWelcome == InitWelcome /\ [][NextWelcome]_vars

(***************************************************************************)
(* Properties of the figures.                                              *)
(***************************************************************************)

IsPrefix(a, b) == Len(a) <= Len(b) /\ SubSeq(b, 1, Len(a)) = a
Top(stack) == stack[Len(stack)]
LayerNames(stack) == [i \in DOMAIN stack |-> stack[i].layer]
Sites(stack) == [i \in DOMAIN stack |-> stack[i].site]

\* The statement being executed is a plotting call on figure v that succeeds.
Plots(v) ==
    /\ cur # 0
    /\ Next_stmt.op \in PlotOps
    /\ Next_stmt.var = v
    /\ kernel'.err = "-"

\* C1: a figure is a canvas whose elements are laid in call order: every
\* plotting call puts its element(s) on top of everything already on the
\* figure, and no step other than a new pygmt.Figure() for the variable
\* removes or reorders an element laid earlier.
C1_CanvasAppendOnly ==
    [][\A v \in FigVars :
         LET old == kernel.figs[v].stack
             new == kernel'.figs[v].stack
         IN  /\ (cur # 0 /\ Next_stmt.op = "Figure" /\ Next_stmt.var = v)
                  \/ IsPrefix(old, new)
             /\ Plots(v) =>
                  /\ Len(new) > Len(old)
                  /\ \A i \in (Len(old) + 1)..Len(new) : new[i].site = Next_stmt.line
    ]_vars

\* first-figure.ipynb after the cells of lines 112, 158 and 177: the
\* shorelines drawn first lie beneath the water and the land fills.
C1_ShorelinesBeneathFills ==
    /\ nb = "first-figure" /\ docpc = 7 /\ cur = 0
    /\ Sites(kernel.figs["fig"].stack) = << 112, 158, 177 >>
    /\ LayerNames(kernel.figs["fig"].stack) = << "shorelines", "fill", "fill" >>

\* C2: a plotting call that passes no region works in the last region
\* provided to its figure, and when a notebook is read in document order no
\* plotting call executes with an undefined region.
C2_RegionRemembered ==
    /\ [](docpc >= 0 => kernel.err # "RegionError")
    /\ [][\A v \in FigVars :
            (Plots(v) /\ Next_stmt.region = "-" /\ kernel.figs[v].region # "-") =>
                /\ kernel'.figs[v].region = kernel.figs[v].region
                /\ Top(kernel'.figs[v].stack).region = kernel.figs[v].region
       ]_vars

\* first-figure.ipynb after the cell of lines 158-159: the water fill, whose
\* call passed no region, is drawn in the region of the shorelines call.
C2_WaterInShorelinesRegion ==
    /\ nb = "first-figure" /\ docpc = 6 /\ cur = 0 /\ kernel.err = "-"
    /\ Sites(kernel.figs["fig"].stack) = << 112, 158 >>
    /\ Top(kernel.figs["fig"].stack).region = "[125, 155, 30, 55]"

\* What the cell produces on a kernel that holds the same data and has
\* never drawn anything.
OnBlankKernel(K, cell) == RunAll([FreshKernel EXCEPT !.vals = K.vals], cell)

\* The cell being executed has just run its last statement, with no error.
Finishes == cur # 0 /\ cur' = 0 /\ kernel'.err = "-"

\* C3: pygmt.Figure() yields a blank canvas, whatever the variable held
\* before, so a cell that starts with pygmt.Figure() produces the same
\* figure no matter which figure cells were executed before it.
C3_BlankCanvas ==
    [][/\ (cur # 0 /\ Next_stmt.op = "Figure" /\ kernel'.err = "-") =>
             kernel'.figs[Next_stmt.var] = BlankFigure
       /\ (Finishes /\ Cell[1].op = "Figure") =>
             kernel'.figs[Cell[1].var] =
                 OnBlankKernel(kernel', Cell).figs[Cell[1].var]
    ]_vars

\* first-figure.ipynb read in document order up to the cell of lines
\* 201-206: its pygmt.Figure() has just run, fig held the three elements of
\* the cells before, and now holds none.
C3_NewFigureAfterOldOne ==
    /\ nb = "first-figure" /\ docpc = 8 /\ cur = 8 /\ pc = 2
    /\ kernel.figs["fig"] = BlankFigure

\* A stack without the positions of the calls that laid its elements.
Unsited(stack) == [i \in DOMAIN stack |-> [stack[i] EXCEPT !.site = 0]]

\* C4: on a fresh figure coast(region, shorelines, land, water) produces the
\* same element stack as coast(region, land, water) followed by
\* coast(shorelines): the fills, and the shorelines on top of them.
C4_CombinedCoastCall ==
    [][(nb = "first-figure" /\ Finishes) =>
          LET stack == kernel'.figs["fig"].stack
              two == OnBlankKernel(kernel', FF_twocall).figs["fig"].stack
          IN  /\ Cell = FF_twocall => stack = two
              /\ Cell = FF_combined =>
                    /\ Unsited(stack) = Unsited(two)
                    /\ LayerNames(stack) = << "fill", "shorelines" >>
    ]_vars

\* The combined call of line 225 has drawn its figure.
C4_CombinedCallDrawn ==
    /\ nb = "first-figure" /\ docpc = 9 /\ cur = 0 /\ kernel.err = "-"
    /\ Sites(kernel.figs["fig"].stack) = << 225, 225 >>
    /\ LayerNames(kernel.figs["fig"].stack) = << "fill", "shorelines" >>

\* first-figure.ipynb, read in document order, is about to show a figure
\* that has a map frame.
ShowsFramedFigure ==
    /\ nb = "first-figure" /\ docpc >= 0 /\ cur # 0
    /\ Next_stmt.op = "show"
    /\ \E i \in DOMAIN kernel.figs["fig"].stack :
          kernel.figs["fig"].stack[i].layer = "frame"

CmapTrue ==
    { [nb |-> "first-figure", call |-> 528, makecpt |-> 527,
       series |-> "[data.depth_km.min(), data.depth_km.max()]"],
      [nb |-> "first-figure", call |-> 567, makecpt |-> 566,
       series |-> "[data.depth_km.min(), data.depth_km.max()]"],
      [nb |-> "lidar_to_surface", call |-> 218, makecpt |-> 217,
       series |-> "[df.z.min(), df.z.max()]"],
      [nb |-> "lidar_to_surface", call |-> 407, makecpt |-> 406,
       series |-> "[-10, 200]"],
      [nb |-> "ecosystem", call |-> 115, makecpt |-> 108,
       series |-> "cmap_bounds"],
      [nb |-> "ecosystem", call |-> 213, makecpt |-> 212,
       series |-> "[-2, 30]"] }

\* C6: every call that passes cmap=True paints with the palette of the
\* makecpt call made for its data: that makecpt precedes it with no other
\* makecpt in between.
C6_CmapTrueUsesItsMakecpt ==
    /\ \A c \in DOMAIN Cells(nb) : \A i \in DOMAIN Cells(nb)[c] :
          Cells(nb)[c][i].cmap = "True" =>
              \E k \in CmapTrue : k.nb = nb /\ k.call = Cells(nb)[c][i].line
    /\ \A v \in FigVars : \A i \in DOMAIN kernel.figs[v].stack :
          LET e == kernel.figs[v].stack[i]
          IN  \A k \in CmapTrue :
                 (k.nb = nb /\ k.call = e.site /\ e.layer # "frame") =>
                     /\ e.cpt.site = k.makecpt
                     /\ e.cpt.series = k.series

\* The LiDAR notebook has drawn fig2: the grid image of line 407 is painted
\* with the palette of line 406.
C6_Fig2PaintedWithItsPalette ==
    /\ nb = "lidar_to_surface" /\ docpc = 12 /\ cur = 0
    /\ \E i \in DOMAIN kernel.figs["fig2"].stack :
          /\ kernel.figs["fig2"].stack[i].site = 407
          /\ kernel.figs["fig2"].stack[i].layer = "image"
          /\ kernel.figs["fig2"].stack[i].cpt.site = 406

(***************************************************************************)
(* Properties of the LiDAR processing chain.                               *)
(***************************************************************************)

\* The noise removal of line 265 has run.
Denoised == step \notin {"load", "info", "query"}

\* How many of the first i rows of a table are not high noise.
KeptUpTo(table, i) ==
    Cardinality({j \in 1..i : table[j].classification # 18})

\* C8: after df = df.query('classification != 18') no row has classification
\* 18, and every row of the file whose classification differs from 18 is
\* still there, unchanged, in the same relative order.
C8_QueryKeepsExactlyTheOthers ==
    Denoised =>
        /\ \A i \in DOMAIN df : df[i].classification # 18
        /\ Len(df) = KeptUpTo(lazfile, Len(lazfile))
        /\ \A i \in DOMAIN lazfile :
              lazfile[i].classification # 18 => df[KeptUpTo(lazfile, i)] = lazfile[i]

\* A high-noise point between two others has been removed.
C8_NoiseRemovedBetweenTwoReturns ==
    /\ Denoised
    /\ Len(lazfile) = 3 /\ Len(df) = 2
    /\ lazfile[2].classification = 18
    /\ df[1] # df[2]

\* The file without its high-noise points.
RECURSIVE Clean(_)
Clean(cloud) ==
    IF cloud = << >> THEN << >>
    ELSE (IF Head(cloud).classification = 18 THEN << >> ELSE << Head(cloud) >>)
         \o Clean(Tail(cloud))

\* C9 as stated: when the notebook is run top to bottom no point with
\* classification 18 contributes to df_trimmed, the grid, fig2, fig3 or
\* DSM_of_Wellington.tif: they are what the file without those points gives.
C9_NoiseContributesNothing ==
    (step = "done" /\ Clean(lazfile) # << >>) =>
        LET clean == Notebook(Clean(lazfile))
        IN  /\ df_trimmed = clean.df_trimmed
            /\ grid = clean.grid
            /\ fig2 = clean.fig2
            /\ fig3 = clean.fig3
            /\ tif = clean.tif

\* The block of a row of df_trimmed.
RowBlock(row) == BlockAt(row.x, row.y, region)

\* C10 as stated: blockmedian with T=0.99 and spacing '1+e' returns at most
\* one point for each 1 m x 1 m block, with the highest elevation among the
\* input points that fall in the block.
C10_HighestPointOfEachBlock ==
    step \in {"surface", "fig2", "fig3", "fig3 shaded", "to_raster", "done", "failed"} =>
        /\ \A i, j \in DOMAIN df_trimmed :
              RowBlock(df_trimmed[i]) = RowBlock(df_trimmed[j]) => i = j
        /\ \A i \in DOMAIN df_trimmed :
              df_trimmed[i].z =
                  2 * Max({df[k].z : k \in {k \in DOMAIN df :
                              BlockOf(df[k], region) = RowBlock(df_trimmed[i])}})

(***************************************************************************)
(* Properties of the files, the names and the blocks.                      *)
(***************************************************************************)

PngFiles ==
    {"wellington_1d_lidar.png", "wellington_2d_dsm_map.png",
     "wellington_3d_dsm_view.png"}

\* The figure variable the save cell is meant to write to a file.
SavedFrom(file) ==
    CASE file = "wellington_1d_lidar.png" -> "fig"
      [] file = "wellington_2d_dsm_map.png" -> "fig2"
      [] file = "wellington_3d_dsm_view.png" -> "fig3"

\* The LiDAR notebook was read in document order and its save cell (the
\* 15th code cell) has run.
SavedInDocumentOrder ==
    nb = "lidar_to_surface" /\ docpc >= 15 /\ cur # 15 /\ kernel.err = "-"

\* C11: the save cell writes each of the three figures to a file of its
\* own: fig to wellington_1d_lidar.png, fig2 to wellington_2d_dsm_map.png,
\* fig3 to wellington_3d_dsm_view.png, each as the figure stands when it is
\* saved; in document order these are the point preview, the 2D map and the
\* hill-shaded 3D view.
C11_FiguresSavedToSeparateFiles ==
    /\ [][(cur # 0 /\ Next_stmt.op = "savefig" /\ kernel'.err = "-") =>
             /\ Next_stmt.arg \in PngFiles
             /\ Next_stmt.var = SavedFrom(Next_stmt.arg)
             /\ kernel'.files[Next_stmt.arg] =
                    [from |-> Next_stmt.var, stack |-> kernel.figs[Next_stmt.var].stack]
             /\ \A f \in DOMAIN kernel.files \ {Next_stmt.arg} :
                    kernel'.files[f] = kernel.files[f]
       ]_vars
    /\ [](\A f \in PngFiles : kernel.files[f].from \in {"-", SavedFrom(f)})
    /\ [](SavedInDocumentOrder =>
             /\ \A f \in PngFiles : kernel.files[f].from = SavedFrom(f)
             /\ Sites(kernel.files["wellington_1d_lidar.png"].stack) = << 216, 218, 221 >>
             /\ Sites(kernel.files["wellington_2d_dsm_map.png"].stack) = << 401, 407, 408 >>
             /\ Sites(kernel.files["wellington_3d_dsm_view.png"].stack) = << 467, 467 >>)

\* The three files are written, the 3D one with the hill-shaded view.
C11_ThreeFilesWritten ==
    /\ SavedInDocumentOrder /\ cur = 0
    /\ \A f \in PngFiles : kernel.files[f].from = SavedFrom(f)
    /\ LayerNames(kernel.files["wellington_3d_dsm_view.png"].stack) = << "surface", "frame" >>
    /\ kernel.files["wellington_3d_dsm_view.png"].stack[1].desc[2] = "shading"

\* The number of points in the first k files of the list.
RECURSIVE PointsIn(_, _)
PointsIn(files, k) == IF k = 0 THEN 0 ELSE PointsIn(files, k - 1) + Len(files[k])

\* C12: after the bonus loop df holds the rows of every file in filenames,
\* in list order, len(df) is the sum of the files' point counts and the
\* index is 0..len(df)-1; with the shipped empty list the loop body never
\* runs and df is empty.
C12_LoopLoadsEveryFile ==
    step = "bonus done" =>
        /\ Len(df) = PointsIn(filenames, Len(filenames))
        /\ \A i \in DOMAIN df : df[i].index = i - 1
        /\ \A k \in DOMAIN filenames : \A j \in DOMAIN filenames[k] :
              df[PointsIn(filenames, k - 1) + j]
                  = Labelled(PointsIn(filenames, k - 1) + j - 1, filenames[k][j])
        /\ filenames = << >> => (df = << >> /\ loaded = 0 /\ lazfile = << >>)

\* Two files of two points each have been loaded.
C12_TwoFilesLoaded ==
    /\ step = "bonus done"
    /\ Len(filenames) = 2 /\ Len(filenames[1]) = 2 /\ filenames[1] # filenames[2]
    /\ Len(df) = 4 /\ df[4].index = 3

\* C13: when the code cells of a notebook are executed once, in document
\* order, every name is bound before a statement reads it: no NameError.
C13_DefinedBeforeUse ==
    docpc >= 0 =>
        /\ kernel.err # "NameError"
        /\ cur # 0 => ~Unbound(kernel, Next_stmt)

\* The ecosystem notebook has been run to its end in document order: its
\* last cell read depth_slider and view, bound by the two cells before it.
C13_DashboardCellReadItsNames ==
    /\ nb = "ecosystem" /\ docpc = 10 /\ cur = 0 /\ kernel.err = "-"
    /\ kernel.vals["depth_slider"] # "-" /\ kernel.vals["view"] = "def"
    /\ kernel.figs["view.fig"].stack # << >>

\* C14 as stated: the population cell is idempotent under re-execution:
\* after any number (>= 1) of executions pop_est is the estimate in
\* millions.
C14_PopulationCellIdempotent ==
    runs >= 1 =>
        /\ \A i \in DOMAIN world : world[i].pop_est.e = -6
        /\ world = Scaled(Populated(naturalearth))

\* The panels of a subplot (nrows * ncols, line 1166) and the index a
\* set_panel call passes (lines 1168, 1190).
Panels(arg) == CASE arg = "nrows=1,ncols=2" -> 2
PanelIndex(arg) == CASE arg = "0" -> 0 [] arg = "1" -> 1

\* The plotting calls meant for an inset: the small globe and what is drawn
\* on it.
InsetCalls ==
    { [nb |-> "Mars_Maps", lines |-> {210, 211}],
      [nb |-> "Mars_Maps_extended", lines |-> {1019, 1020, 1134, 1135, 1136}] }

\* The statements of a cell from the i-th up to the end of the block that
\* the i-th opens.
RECURSIVE BlockEnd(_, _, _)
BlockEnd(cell, i, depth) ==
    IF i > Len(cell) THEN i
    ELSE IF cell[i].op = "end"
         THEN (IF depth = 1 THEN i ELSE BlockEnd(cell, i + 1, depth - 1))
    ELSE IF cell[i].op \in {"inset", "subplot", "set_panel"}
         THEN BlockEnd(cell, i + 1, depth + 1)
    ELSE BlockEnd(cell, i + 1, depth)

\* In a cell, the set_panel calls of the subplot opened by statement i
\* activate each of its panels exactly once.
EachPanelOnce(cell, i) ==
    LET last == BlockEnd(cell, i + 1, 1)
        calls == {j \in (i + 1)..last : j <= Len(cell) /\ cell[j].op = "set_panel"}
    IN  /\ last <= Len(cell)
        /\ \A k \in 0..(Panels(cell[i].arg) - 1) :
              Cardinality({j \in calls : PanelIndex(cell[j].arg) = k}) = 1
        /\ \A j \in calls : PanelIndex(cell[j].arg) < Panels(cell[i].arg)

\* C15: inset and subplot blocks are well nested: a set_panel block is
\* entered only inside a subplot block, with an index below nrows*ncols,
\* and each panel is activated exactly once; the plotting calls meant for an
\* inset, and only they, draw inside an inset block; fig.show() runs only
\* when every block of the figure has been left.
C15_BlocksWellNested ==
    /\ \A c \in DOMAIN Cells(nb) : \A i \in DOMAIN Cells(nb)[c] :
          Cells(nb)[c][i].op = "subplot" => EachPanelOnce(Cells(nb)[c], i)
    /\ (cur # 0 /\ Next_stmt.op = "set_panel" /\ ~Unbound(kernel, Next_stmt)) =>
          LET ctx == kernel.figs[Next_stmt.var].ctx
          IN  /\ Len(ctx) = 1 /\ ctx[1].kind = "subplot"
              /\ PanelIndex(Next_stmt.arg) < Panels(ctx[1].arg)
    /\ (cur # 0 /\ Next_stmt.op = "show" /\ ~Unbound(kernel, Next_stmt)) =>
          kernel.figs[Next_stmt.var].ctx = << >>
    /\ cur = 0 => \A v \in FigVars : kernel.figs[v].ctx = << >>
    /\ \A v \in FigVars : \A i \in DOMAIN kernel.figs[v].stack :
          LET e == kernel.figs[v].stack[i]
          IN  /\ e.ctx \in {<< >>, << "inset" >>, << "subplot", "set_panel" >>}
              /\ e.ctx = << "inset" >> <=>
                    \E k \in InsetCalls : k.nb = nb /\ e.site \in k.lines

\* The side-by-side figure (lines 1163-1210) is about to be shown: both
\* panels are drawn and no block is open.
C15_PanelsDrawnBlocksLeft ==
    /\ nb = "Mars_Maps_extended" /\ cur # 0 /\ Next_stmt.op = "show"
    /\ Next_stmt.line = 1210
    /\ kernel.figs["fig"].ctx = << >>
    /\ Sites(kernel.figs["fig"].stack) = << 1174, 1174, 1195, 1195, 1208 >>
    /\ \A i \in DOMAIN kernel.figs["fig"].stack :
          kernel.figs["fig"].stack[i].ctx = << "subplot", "set_panel" >>

\* C16 as stated: each panel of the welcome page links to the tutorial
\* named in its button text: the targets of the four link-buttons are
\* pairwise distinct, the panel "LiDAR Point clouds to 3D surfaces" targets
\* lidar_to_surface, and the page a click opens carries the button's text as
\* its heading.
C16_PanelsLinkToTheirTutorials ==
    /\ Len(IntroPanels) = 4
    /\ \A i, j \in DOMAIN IntroPanels :
          i # j => IntroPanels[i].target # IntroPanels[j].target
    /\ \A i \in DOMAIN IntroPanels :
          IntroPanels[i].text = "lidar point clouds to 3d surfaces" =>
              IntroPanels[i].target = "lidar_to_surface"
    /\ (page # "intro" /\ clicks # << >>) =>
          Headings[page] = IntroPanels[clicks[Len(clicks)]].text

====
